---- MODULE Spec2Model ----
(***************************************************************************)
(* The SQL-to-NSQL transpiler of py-nsql: cautils/parser.py and its older  *)
(* twin nsql/parser.py.  Text is modelled by TLA+ strings, a sqlparse      *)
(* token by a record, the generator _convert by a state machine that       *)
(* takes one step per top-level token (and one per IdentifierList member). *)
(* Next to it: the credentials update commands of the two CLIs over the    *)
(* configuration file (SpecCreds), and XOG.send over one HTTP response     *)
(* (SpecXog).                                                              *)
(***************************************************************************)
EXTENDS Integers, Sequences, FiniteSets, TLC

VARIABLES
    parser,         \* which module runs: "cautils" or "nsql"
    sql,            \* the input statement: [cols, rest], as written in the file
    tokens,         \* the top-level token stream (the trees are edited in place)
    i,              \* position of the loop of _convert in tokens (1-based)
    identifiers,    \* the members of the IdentifierList being walked
    j,              \* position of the inner loop in identifiers (1-based)
    inside_select,
    is_first,
    out,            \* the pieces yielded so far, each with the token it came from
    returned,       \* the value of sql_to_nsql, once it has returned
    pc,             \* "loop", "list", "done", "written" or "raised"
    written,        \* the calls of output.write made by transpile, in order
    \* the credentials commands (cli.py, utils.py)
    cred,           \* the loop variable of creds_update_factory
    commands,       \* the names the factory has registered as commands
    envs,           \* the configuration file: env name -> credentials
    ran,            \* the command lines run so far, each with its outcome
    \* XOG.send (xog.py)
    xog,            \* which module's XOG runs: "cautils" or "nsql"
    response,       \* the response of the POST: [status, body]
    xpc,            \* where send is: "post", "status", "parse", "check", "returned", "raised"
    exc,            \* the exception send raised, "" when none
    \* a caller of XOG: the CLI commands that log in, and a with block
    invoked,        \* "edit", "run_id", "file", "xog" or "with"
    options,        \* the flags of query edit: [run, loop]
    spc,            \* where the caller is
    session_id,     \* XOG.session_id, "" while unset
    is_closed,      \* XOG.c.is_closed
    log,            \* what the caller did so far: [op, exc, closed]
    raising,        \* the exception on its way out of the caller, "" when none
    exit_code       \* the exit code of the command, -1 while it runs

\* the variables of the transpiler, of the credentials commands, of XOG.send
tvars == <<parser, sql, tokens, i, identifiers, j, inside_select, is_first,
           out, returned, pc, written>>
cvars == <<cred, commands, envs, ran>>
xvars == <<xog, response, xpc, exc>>
svars == <<invoked, options, spc, session_id, is_closed, log, raising, exit_code>>
vars == <<tvars, cvars, xvars, svars>>

\* ------------------------------------------------------------------ bounds

\* the longest SELECT list of an input
MaxCols == 2

\* the most command lines run against one configuration file
MaxRuns == 2

\* ------------------------------------------------------------------ text

\* Python's None next to a str
None == [some |-> FALSE, v |-> ""]
Some(s) == [some |-> TRUE, v |-> s]

\* str(x) inside an f-string
Fmt(o) == IF o.some THEN o.v ELSE "None"

\* a or b, for str-or-None values
OrElse(a, b) == IF a.some /\ a.v # "" THEN a ELSE b

Char(s, k) == SubSeq(s, k, k)

\* s.rstrip(" ")
RECURSIVE rstrip(_)
rstrip(s) ==
    IF Len(s) > 0 /\ Char(s, Len(s)) = " "
    THEN rstrip(SubSeq(s, 1, Len(s) - 1))
    ELSE s

\* needle in s
Contains(s, needle) ==
    \E k \in 1..(Len(s) - Len(needle) + 1) :
        SubSeq(s, k, k + Len(needle) - 1) = needle

StartsWith(s, p) == Len(s) >= Len(p) /\ SubSeq(s, 1, Len(p)) = p
EndsWith(s, p) == Len(s) >= Len(p) /\ SubSeq(s, Len(s) - Len(p) + 1, Len(s)) = p

\* sqlparse.utils.remove_quotes (its third quote character, the backquote,
\* cannot be written in a TLA+ string; no input of the model has one)
remove_quotes(val) ==
    IF Len(val) >= 1 /\ Char(val, 1) \in {"\"", "'"} /\ Char(val, 1) = Char(val, Len(val))
    THEN SubSeq(val, 2, Len(val) - 1)
    ELSE val

\* ------------------------------------------------------------------ tokens

\* sqlparse.sql.Token and the group classes (TokenList): cls is the Python
\* class, ttype the token type of a leaf, value the text given at construction.
RECURSIVE Str(_), JoinStr(_)
\* str(token): a leaf's value, a group's flattened leaves
Str(t) == IF t.cls = "Token" THEN t.value ELSE JoinStr(t.tokens)
JoinStr(ts) == IF Len(ts) = 0 THEN "" ELSE Str(Head(ts)) \o JoinStr(Tail(ts))

Token(ttype, value) == [cls |-> "Token", ttype |-> ttype, value |-> value, tokens |-> <<>>]
Group(cls, ts) == [cls |-> cls, ttype |-> "None", value |-> JoinStr(ts), tokens |-> ts]

Name(s) == Token("Name", s)
Keyword(s) == Token("Keyword", s)
Punctuation(s) == Token("Punctuation", s)
WS == Token("Whitespace", " ")
NL == Token("Newline", "\n")
Identifier(ts) == Group("Identifier", ts)

\* ttype in T.Keyword / ttype in T.Whitespace (a type contains its subtypes)
InKeyword(ttype) == ttype \in {"Keyword", "DML"}
InWhitespace(ttype) == ttype \in {"Whitespace", "Newline"}

\* Token.match(ttype, values): the type must be the very same one
match(t, ttype, value) == t.cls = "Token" /\ t.ttype = ttype /\ t.value = value

IsAs(t) == match(t, "Keyword", "AS")
IsDot(t) == match(t, "Punctuation", ".")
IsWs(t) == t.cls = "Token" /\ InWhitespace(t.ttype)

\* TokenList.token_next_by: the 1-based place of the first child among the
\* places S that matched, 0 when there is none
FirstOf(S) == IF S = {} THEN 0 ELSE CHOOSE k \in S : \A m \in S : k <= m
FirstAs(ts) == FirstOf({k \in 1..Len(ts) : IsAs(ts[k])})
FirstDot(ts) == FirstOf({k \in 1..Len(ts) : IsDot(ts[k])})
FirstWs(ts) == FirstOf({k \in 1..Len(ts) : IsWs(ts[k])})

Reverse(ts) == [k \in 1..Len(ts) |-> ts[Len(ts) + 1 - k]]

\* tokens[idx:] if idx else tokens  (idx counts from 0; None is given as 0)
SliceFrom(ts, idx) == IF idx > 0 THEN SubSeq(ts, idx + 1, Len(ts)) ELSE ts

RECURSIVE FirstName(_, _, _), get_real_name(_), get_alias(_), get_name(_)
\* TokenList._get_first_name, after the slice and the reversal: the name of
\* the first child that has one
FirstName(ts, keywords, real_name) ==
    IF Len(ts) = 0 THEN None
    ELSE LET t == Head(ts) IN
         IF t.cls = "Token" /\ (t.ttype \in {"Name", "Wildcard", "Symbol"}
                                \/ (keywords /\ t.ttype = "Keyword"))
         THEN Some(remove_quotes(t.value))
         ELSE IF t.cls \in {"Identifier", "Function"}
         THEN (IF real_name THEN get_real_name(t) ELSE get_name(t))
         ELSE FirstName(Tail(ts), keywords, real_name)

\* token._get_first_name()
_get_first_name(t) == FirstName(t.tokens, FALSE, FALSE)

\* the classes that take NameAliasMixin (sqlparse 0.4); get_alias and
\* get_real_name of every other TokenList answer None
HasNames(t) == t.cls \in {"Identifier", "Function"}

\* NameAliasMixin.get_real_name: the name after the first dot, else the first
get_real_name(t) ==
    LET dot == FirstDot(t.tokens)
    IN  IF HasNames(t) THEN FirstName(SliceFrom(t.tokens, dot - 1), FALSE, TRUE)
        ELSE None

\* NameAliasMixin.get_alias: "x AS alias", or "x alias"
get_alias(t) ==
    LET kw == FirstAs(t.tokens)
        ws == FirstWs(t.tokens)
    IN  IF ~HasNames(t) THEN None
        ELSE IF kw > 0 THEN FirstName(SliceFrom(t.tokens, kw), TRUE, FALSE)
        ELSE IF Len(t.tokens) > 2 /\ ws > 0
        THEN FirstName(Reverse(t.tokens), FALSE, FALSE)
        ELSE None

\* TokenList.get_name
get_name(t) == OrElse(get_alias(t), get_real_name(t))

\* IdentifierList.get_identifiers, as places in the list's children
MemberPlaces(t) ==
    LET keep == {k \in 1..Len(t.tokens) :
                    ~(IsWs(t.tokens[k]) \/ match(t.tokens[k], "Punctuation", ","))}
        RECURSIVE asc(_)
        asc(S) == IF S = {} THEN <<>>
                  ELSE LET m == CHOOSE x \in S : \A y \in S : x <= y
                       IN  <<m>> \o asc(S \ {m})
    IN  asc(keep)

\* ------------------------------------------------------------------ input

\* What sqlparse.parsestream makes of the text of one SELECT-list column.
\* A name, dotted or not, is grouped into an Identifier; "x AS a" is grouped
\* into an Identifier around x; a function call, an operation, a CASE, a
\* wildcard or a literal with no alias stays what it is.
NameOf(s) == Identifier(<<Name(s)>>)
AsAlias(a) == <<WS, Keyword("AS"), WS, NameOf(a)>>

PlainRef(q, c, a) ==
    Identifier((IF q # "" THEN <<Name(q), Punctuation(".")>> ELSE <<>>)
               \o <<Name(c)>>
               \o (IF a # "" THEN AsAlias(a) ELSE <<>>))

Parenthesis(ts) == Group("Parenthesis", <<Punctuation("(")>> \o ts \o <<Punctuation(")")>>)
Function(name, arg) == Group("Function", <<NameOf(name), Parenthesis(<<NameOf(arg)>>)>>)
Operation(l, op, r) == Group("Operation", <<NameOf(l), WS, Token("Operator", op), WS, NameOf(r)>>)
Comparison(l, op, r) == Group("Comparison", <<l, WS, Token("Comparison", op), WS, r>>)
Case == Group("Case", <<Keyword("CASE"), WS, Keyword("WHEN"), WS, NameOf("a"), WS,
                        Keyword("THEN"), WS, Token("Integer", "1"), WS, Keyword("END")>>)
Where(trailing) ==
    Group("Where", <<Keyword("WHERE"), WS,
                     Comparison(NameOf("a"), "=", Token("Integer", "1"))>> \o trailing)
\* WHERE a = 1 AND b = 2 AND c = 3
WhereLong ==
    Group("Where", <<Keyword("WHERE"), WS,
                     Comparison(NameOf("a"), "=", Token("Integer", "1")), WS,
                     Keyword("AND"), WS,
                     Comparison(NameOf("b"), "=", Token("Integer", "2")), WS,
                     Keyword("AND"), WS,
                     Comparison(NameOf("c"), "=", Token("Integer", "3"))>>)
Subquery ==
    Parenthesis(<<Token("DML", "SELECT"), WS, Function("MAX", "z"), WS, Keyword("FROM"),
                  WS, NameOf("u"), WS, Where(<<>>)>>)
Aliased(x, a) == Identifier(<<x>> \o AsAlias(a))

\* The window clause, and the three shapes of a window function with an alias.
\* "OVER(" with no space is lexed as the name of a function, so that
\* SUM(x) OVER(PARTITION BY y) AS total is an Identifier around SUM(x) whose
\* last child is the Identifier "OVER(...) AS total".  With a space, OVER is a
\* keyword: a sqlparse that has group_over (0.4.4 on) takes the clause into
\* the Function; an older one leaves SUM(x) and OVER at the top level and
\* groups the parenthesis with the alias.
PartitionBy == <<Keyword("PARTITION"), WS, Keyword("BY"), WS, NameOf("y")>>
WindowNested ==
    Identifier(<<Function("SUM", "x"), WS,
                 Aliased(Group("Function", <<NameOf("OVER"), Parenthesis(PartitionBy)>>),
                         "total")>>)
WindowGrouped ==
    Aliased(Group("Function",
                  <<NameOf("SUM"), Parenthesis(<<NameOf("x")>>), WS,
                    Group("Over", <<Keyword("OVER"), WS, Parenthesis(PartitionBy)>>)>>),
            "total")
WindowUngrouped ==
    <<Function("SUM", "x"), WS, Keyword("OVER"), WS, Aliased(Parenthesis(PartitionBy), "total")>>

\* x::int is grouped into an Identifier of x, the :: and the type name
Typecast(x) == Identifier(<<x, Punctuation("::"), Token("Builtin", "int")>>)

\* SUM(x) OVER(PARTITION BY y)::int: the cast is grouped first, around the
\* OVER(...) function, and SUM(x) is then grouped with that Identifier
WindowCast ==
    Identifier(<<Function("SUM", "x"), WS,
                 Typecast(Group("Function", <<NameOf("OVER"), Parenthesis(PartitionBy)>>))>>)

\* The columns an input is made of, as written: the kind of expression and,
\* for a plain reference, its qualifier q, name c and explicit alias a ("" when
\* absent).
Column(kind) == [kind |-> kind, q |-> "", c |-> "", a |-> ""]
Plain(q, c, a) == [kind |-> "plain", q |-> q, c |-> c, a |-> a]

COLUMNS ==
    { Plain("", "a", ""), Plain("t", "col", ""), Plain("", "b", "c"), Plain("a", "a", ""),
      Column("function"), Column("function_as"), Column("operation"),
      Column("operation_as"), Column("case_as"), Column("subquery_as"),
      Column("wildcard"), Column("literal"),
      Column("window_as"), Column("window_over_as"), Column("window_spaced_as"),
      Column("paren_cast"), Column("literal_as"), Column("literal_cast"),
      Column("string"), Column("window_cast") }

\* the token sqlparse groups the text of a column into
TokenOf(col) ==
    CASE col.kind = "plain" -> PlainRef(col.q, col.c, col.a)
      [] col.kind = "function" -> Function("COUNT", "x")
      [] col.kind = "function_as" -> Aliased(Function("COUNT", "x"), "n")
      [] col.kind = "operation" -> Operation("a", "+", "b")
      [] col.kind = "operation_as" -> Aliased(Operation("a", "+", "b"), "s")
      [] col.kind = "case_as" -> Aliased(Case, "k")
      [] col.kind = "subquery_as" -> Aliased(Subquery, "m")
      [] col.kind = "wildcard" -> Token("Wildcard", "*")
      [] col.kind = "literal" -> Token("Integer", "1")
      [] col.kind = "window_as" -> WindowNested
      [] col.kind = "window_over_as" -> WindowGrouped
      [] col.kind = "paren_cast" -> Typecast(Parenthesis(<<Operation("a", "+", "b")>>))
      [] col.kind = "literal_as" -> Aliased(Token("Integer", "1"), "one")
      [] col.kind = "literal_cast" -> Typecast(Token("Integer", "1"))
      [] col.kind = "string" -> Token("Single", "'x'")
      [] col.kind = "window_cast" -> WindowCast

\* the top-level tokens of a column that stands alone
TokensOf(col) ==
    IF col.kind = "window_spaced_as" THEN WindowUngrouped ELSE <<TokenOf(col)>>

\* What follows the SELECT list: an optional INTO, FROM t (or no FROM), an
\* optional JOIN, and no WHERE, a WHERE that ends the text, a WHERE before a
\* final newline, or a WHERE of three conditions.
\* sub: the FROM clause reads a subquery, FROM (SELECT ...) AS s; more: the
\* statement ends in a semicolon and a second statement follows.
Rest(into, from, join, where) ==
    [into |-> into, from |-> from, join |-> join, where |-> where,
     sub |-> FALSE, more |-> FALSE]
RestSub == [Rest(FALSE, TRUE, FALSE, "bare") EXCEPT !.sub = TRUE]
RestMore == [Rest(FALSE, TRUE, FALSE, "semicolon") EXCEPT !.more = TRUE]
BASIC_RESTS ==
    { Rest(FALSE, TRUE, FALSE, "none"),
      Rest(FALSE, TRUE, FALSE, "bare"),
      RestSub }
RESTS ==
    BASIC_RESTS \cup
    { Rest(FALSE, TRUE,  FALSE, "newline"),
      Rest(TRUE,  TRUE,  FALSE, "bare"),
      Rest(FALSE, TRUE,  TRUE,  "none"),
      Rest(FALSE, TRUE,  TRUE,  "newline"),
      Rest(FALSE, FALSE, FALSE, "bare"),
      Rest(FALSE, TRUE,  FALSE, "long"),
      RestMore }

RECURSIVE CommaList(_)
CommaList(cols) ==
    IF Len(cols) = 1 THEN <<TokenOf(cols[1])>>
    ELSE <<TokenOf(cols[1]), Punctuation(","), WS>> \o CommaList(Tail(cols))

\* one column stays a top-level token, several are grouped into an IdentifierList
SelectList(cols) ==
    IF Len(cols) = 1 THEN TokensOf(cols[1])
    ELSE <<Group("IdentifierList", CommaList(cols))>>

\* the statement after the semicolon: SELECT b AS c FROM u WHERE a = 1.  The
\* semicolon and the newline after it are the end of the first statement,
\* and of its WHERE clause.
SecondStatement ==
    <<Token("DML", "SELECT"), WS, PlainRef("", "b", "c"), WS, Keyword("FROM"), WS,
      NameOf("u"), WS, Where(<<>>)>>

RestTokens(rest) ==
    (IF rest.into THEN <<WS, Keyword("INTO"), WS, NameOf("b")>> ELSE <<>>)
    \o (IF rest.from
        THEN <<WS, Keyword("FROM"), WS,
               IF rest.sub THEN Aliased(Subquery, "s") ELSE NameOf("t")>>
        ELSE <<>>)
    \o (IF rest.join
        THEN <<WS, Keyword("JOIN"), WS, NameOf("u"), WS, Keyword("ON"), WS,
               Comparison(PlainRef("t", "a", ""), "=", PlainRef("u", "a", ""))>>
        ELSE <<>>)
    \o (CASE rest.where = "none" -> <<>>
          [] rest.where = "bare" -> <<WS, Where(<<>>)>>
          [] rest.where = "newline" -> <<WS, Where(<<NL>>)>>
          [] rest.where = "long" -> <<WS, WhereLong>>
          [] rest.where = "semicolon" -> <<WS, Where(<<Punctuation(";"), NL>>)>>)
    \o (IF rest.more THEN SecondStatement ELSE <<>>)

\* chain.from_iterable(map(attrgetter("tokens"), sqlparse.parsestream(file)))
Lead == <<Token("DML", "SELECT"), WS>>
parsestream(s) == Lead \o SelectList(s.cols) \o RestTokens(s.rest)

\* The SELECT lists of the inputs: every kind of column in the first two
\* places (a lone column, the first and the last member of a list), plain
\* references in the places after them.  The window function that an older
\* sqlparse leaves ungrouped is taken as a lone column only.
LATER_COLUMNS == {Plain("", "a", ""), Plain("", "b", "c")}
ColumnLists ==
    UNION {{cols \in [1..n -> COLUMNS] :
               /\ \A k \in 3..n : cols[k] \in LATER_COLUMNS
               /\ n > 1 => \A k \in 1..n : cols[k].kind # "window_spaced_as"}
           : n \in 1..MaxCols}

\* The inputs: every SELECT list before the two basic rests, the lists of
\* plain references before every rest.
IsPlainList(cols) == \A k \in 1..Len(cols) : cols[k].kind = "plain"
INPUTS ==
    {s \in [cols : ColumnLists, rest : RESTS] :
        s.rest \in BASIC_RESTS \/ IsPlainList(s.cols)}

\* ------------------------------------------------------------------ parser

is_from_token(token) ==
    token.cls = "Token" /\ InKeyword(token.ttype) /\ match(token, "Keyword", "FROM")

\* a token is taken for a WHERE clause when one is found anywhere in it
RECURSIVE HasWhere(_)
HasWhere(token) ==
    token.cls = "Where" \/ \E k \in 1..Len(token.tokens) : HasWhere(token.tokens[k])
is_where_token_nested(token) == HasWhere(token)

is_where_token(token) == token.cls = "Where"

\* the tag is DIM_PROP whatever is_dim says
create_select_prop(is_dim, select, alias) ==
    "@SELECT:DIM_PROP:USER_DEF:IMPLIED:T:" \o select \o ":" \o alias \o "@"

create_select(is_dim, select, alias) ==
    "@SELECT:" \o ("DIM" \o (IF is_dim THEN "" ELSE "_PROP")) \o ":USER_DEF:IMPLIED:T:"
    \o select \o ":" \o alias \o "@"

\* token.tokens.pop(): the last child, and the token without it
Last(ts) == ts[Len(ts)]

\* the last child is read and left where it is
NotPopped(token) == token
Popped(token) == [token EXCEPT !.tokens = SubSeq(token.tokens, 1, Len(token.tokens) - 1)]

\* the accumulated text is returned with its trailing space
RECURSIVE _parse_ts_unstripped(_, _, _)
_parse_ts_unstripped(token, ts, acc) ==
    LET op == token.tokens[1]
        inner_token == Last(token.tokens)
    IN  IF inner_token.cls = "Identifier"
        THEN LET inner == _parse_ts_unstripped(inner_token, ts, acc \o Str(op) \o " ")
             IN  [text |-> inner.text, token |-> Popped(token),
                  visited |-> <<Popped(token)>> \o inner.visited]
        ELSE IF op.cls \notin ts
        THEN [text |-> acc, token |-> Popped(token), visited |-> <<Popped(token)>>]
        ELSE [text |-> Str(op), token |-> Popped(token), visited |-> <<Popped(token)>>]

\* cautils: the text found, the token as the walk leaves it, and every
\* Identifier layer the recursion went through, as it leaves them
RECURSIVE _parse_ts(_, _, _)
_parse_ts(token, ts, acc) ==
    LET op == token.tokens[1]
        inner_token == Last(token.tokens)
    IN  IF inner_token.cls = "Identifier"
        THEN LET inner == _parse_ts(inner_token, ts, acc \o Str(op) \o " ")
             IN  [text |-> inner.text, token |-> Popped(token),
                  visited |-> <<Popped(token)>> \o inner.visited]
        ELSE IF op.cls \notin ts
        THEN [text |-> rstrip(acc), token |-> Popped(token), visited |-> <<Popped(token)>>]
        ELSE [text |-> Str(op), token |-> Popped(token), visited |-> <<Popped(token)>>]

\* nsql: acc.rstrip() takes every trailing white space
RECURSIVE rstrip_all(_)
rstrip_all(s) ==
    IF Len(s) > 0 /\ Char(s, Len(s)) \in {" ", "\n", "\t"}
    THEN rstrip_all(SubSeq(s, 1, Len(s) - 1))
    ELSE s

RECURSIVE _parse_functions(_, _)
_parse_functions(token, acc) ==
    LET f == token.tokens[1]
        inner_token == Last(token.tokens)
    IN  IF f.cls # "Function"
        THEN [text |-> rstrip_all(acc), token |-> token]
        ELSE IF inner_token.cls = "Identifier"
        THEN [text |-> _parse_functions(inner_token, acc \o Str(f) \o " ").text,
              token |-> Popped(token)]
        ELSE [text |-> rstrip_all(acc), token |-> Popped(token)]

RECURSIVE _parse_op_with_window_function(_, _)
_parse_op_with_window_function(token, acc) ==
    LET op == token.tokens[1]
        inner_token == Last(token.tokens)
    IN  IF inner_token.cls = "Identifier"
        THEN [text |-> _parse_op_with_window_function(inner_token, acc \o Str(op) \o " ").text,
              token |-> Popped(token)]
        ELSE [text |-> rstrip_all(acc), token |-> Popped(token)]

\* What _parse_identifier gives: the directive, the call of create_select it
\* was made by, the token as left behind and the Identifier layers it went
\* through as left behind; or raised (AttributeError).
Directive(isfirst, select, alias, token) ==
    [raised |-> FALSE, text |-> create_select(isfirst, select, alias),
     is_dim |-> isfirst, select |-> select, alias |-> alias, token |-> token,
     visited |-> <<token>>]
Raised(token) ==
    [raised |-> TRUE, text |-> "", is_dim |-> FALSE, select |-> "", alias |-> "",
     token |-> token, visited |-> <<token>>]

\* the reference is always written qualified
PlainSelectQualified(table, real_name) == Fmt(table) \o "." \o Fmt(real_name)

\* the default case: a plain column or table reference
PlainSelect(table, real_name) ==
    IF table = real_name THEN Fmt(table) ELSE Fmt(table) \o "." \o Fmt(real_name)

\* the expression is the text of the whole identifier, alias and all
ParenthesisSelectWhole(token, isfirst) ==
    LET last == Last(token.tokens)
    IN  IF last.cls = "Token" THEN Raised(Popped(token))
        ELSE Directive(isfirst, Str(token), Fmt(get_name(last)), Popped(token))

\* case sqlparse.sql.Parenthesis: the alias is read off the popped last child
ParenthesisSelect(token, isfirst) ==
    LET parens == token.tokens[1]
        last == Last(token.tokens)
    IN  IF last.cls = "Token" THEN Raised(Popped(token))
        ELSE Directive(isfirst, Str(parens), Fmt(get_name(last)), Popped(token))

\* the default case raises for an identifier that has no name
parse_identifier_named_only(token, isfirst) ==
    LET table == _get_first_name(token)
        real_name == get_real_name(token)
        alias == Fmt(get_name(token))
        first == token.tokens[1]
    IN  CASE first.cls = "Case" -> Directive(isfirst, Str(first), alias, token)
          [] first.cls \in {"Function", "Operation"} ->
                LET thing == _parse_ts(token, {"Function", "Operation"}, "")
                IN  Directive(isfirst, thing.text, alias, thing.token)
          [] first.cls = "Parenthesis" -> ParenthesisSelect(token, isfirst)
          [] OTHER -> IF table.some
                      THEN Directive(isfirst, PlainSelect(table, real_name), alias, token)
                      ELSE Raised(token)

\* _parse_identifier without its case for CASE: the older nsql one
parse_identifier_without_case(token, isfirst) ==
    LET table == _get_first_name(token)
        real_name == get_real_name(token)
        alias == Fmt(get_name(token))
        first == token.tokens[1]
    IN  CASE first.cls \in {"Function", "Operation"} ->
                LET thing == _parse_ts(token, {"Function", "Operation"}, "")
                IN  Directive(isfirst, thing.text, alias, thing.token)
          [] first.cls = "Parenthesis" -> ParenthesisSelect(token, isfirst)
          [] OTHER -> Directive(isfirst, PlainSelect(table, real_name), alias, token)

cautils_parse_identifier(token, isfirst) ==
    LET table == _get_first_name(token)
        real_name == get_real_name(token)
        alias == Fmt(get_name(token))
        first == token.tokens[1]
    IN  CASE first.cls = "Case" -> Directive(isfirst, Str(first), alias, token)
          [] first.cls \in {"Function", "Operation"} ->
                LET thing == _parse_ts(token, {"Function", "Operation"}, "")
                IN  [Directive(isfirst, thing.text, alias, thing.token)
                        EXCEPT !.visited = thing.visited]
          [] first.cls = "Parenthesis" -> ParenthesisSelect(token, isfirst)
          [] OTHER -> Directive(isfirst, PlainSelect(table, real_name), alias, token)

nsql_parse_identifier(token, isfirst) ==
    IF token.cls = "Token" THEN Raised(token)     \* a leaf has no get_name
    ELSE
    LET alias == Fmt(get_name(token))
        table == _get_first_name(token)
        real_name == get_real_name(token)
        first == token.tokens[1]
    IN  CASE first.cls = "Function" ->
                LET func == _parse_functions(token, "")
                IN  Directive(isfirst, func.text, alias, func.token)
          [] first.cls = "Operation" ->
                LET op == _parse_op_with_window_function(token, "")
                IN  Directive(isfirst, op.text, alias, op.token)
          [] first.cls = "Parenthesis" -> ParenthesisSelect(token, isfirst)
          [] OTHER -> Directive(isfirst, PlainSelect(table, real_name), alias, token)

_parse_identifier(token, isfirst) ==
    IF parser = "cautils" THEN cautils_parse_identifier(token, isfirst)
    ELSE nsql_parse_identifier(token, isfirst)

\* ------------------------------------------------------------------ _convert

\* the filter marker of the WHERE clause
Marker == Token("Comparison", "AND @FILTER@\n")

\* TokenList.insert_after(where, token): before the first child after place
\* where (counted from 0) that is not white space, at the end when there is none
insert_after(list, where, token) ==
    LET later == {k \in 1..Len(list.tokens) : k - 1 > where /\ ~IsWs(list.tokens[k])}
        nidx == CHOOSE k \in later : \A m \in later : k <= m
    IN  IF later = {} THEN [list EXCEPT !.tokens = Append(list.tokens, token)]
        ELSE [list EXCEPT !.tokens = SubSeq(list.tokens, 1, nidx - 1) \o <<token>>
                                     \o SubSeq(list.tokens, nidx, Len(list.tokens))]

\* a piece the generator yielded: its text, the top-level token (and list
\* member) it was yielded for, the branch that yielded it and, for a
\* directive, the call of create_select that made it
Piece(text, branch, member, r) ==
    [text |-> text, tok |-> i, member |-> member, branch |-> branch,
     is_dim |-> r.is_dim, select |-> r.select, alias |-> r.alias,
     visited |-> r.visited]
NoCall == [is_dim |-> FALSE, select |-> "", alias |-> "", visited |-> <<>>]

\* the other parts at rest, while the transpiler runs
CredsIdle == cred = "" /\ commands = {} /\ envs = <<>> /\ ran = <<>>
XogIdle == xog = "cautils" /\ response = [status |-> 0, body |-> ""] /\ xpc = "idle" /\ exc = ""
SessionIdle ==
    /\ invoked = ""
    /\ options = [run |-> TRUE, loop |-> TRUE]
    /\ spc = "idle"
    /\ session_id = ""
    /\ is_closed = FALSE
    /\ log = <<>>
    /\ raising = ""
    /\ exit_code = -1

RECURSIVE Joined(_)
\* "".join(pieces)
Joined(pieces) == IF Len(pieces) = 0 THEN "" ELSE Head(pieces).text \o Joined(Tail(pieces))

Init ==
    /\ parser \in {"cautils", "nsql"}
    /\ sql \in INPUTS
    /\ tokens = parsestream(sql)
    /\ i = 1
    /\ identifiers = <<>>
    /\ j = 0
    /\ inside_select = TRUE
    /\ is_first = TRUE
    /\ out = <<>>
    /\ returned = None
    /\ pc = "loop"
    /\ written = <<>>
    /\ CredsIdle
    /\ XogIdle
    /\ SessionIdle

AtToken == pc = "loop" /\ i <= Len(tokens)
InSelectList == tokens[i].cls \in {"Identifier", "IdentifierList"} /\ inside_select

\* the lone Identifier clears is_first, as a list member does
YieldIdentifierClearing ==
    /\ AtToken
    /\ tokens[i].cls = "Identifier" /\ inside_select
    /\ LET r == _parse_identifier(tokens[i], is_first)
       IN  /\ tokens' = [tokens EXCEPT ![i] = r.token]
           /\ IF r.raised
              THEN pc' = "raised" /\ UNCHANGED <<i, out, is_first>>
              ELSE /\ out' = Append(out, Piece(r.text \o "\n", "select", 0, r))
                   /\ i' = i + 1
                   /\ is_first' = FALSE
                   /\ pc' = pc
    /\ UNCHANGED <<parser, sql, identifiers, j, inside_select, returned,
                   written, cvars, xvars, svars>>

\* case sqlparse.sql.Identifier if inside_select
YieldIdentifier ==
    /\ AtToken
    /\ tokens[i].cls = "Identifier" /\ inside_select
    /\ LET r == _parse_identifier(tokens[i], is_first)
       IN  /\ tokens' = [tokens EXCEPT ![i] = r.token]
           /\ IF r.raised
              THEN pc' = "raised" /\ UNCHANGED <<i, out>>
              ELSE /\ out' = Append(out, Piece(r.text \o "\n", "select", 0, r))
                   /\ i' = i + 1
                   /\ pc' = pc
    /\ UNCHANGED <<parser, sql, identifiers, j, inside_select, is_first, returned,
                   written, cvars, xvars, svars>>

\* case sqlparse.sql.IdentifierList if inside_select: list(token.get_identifiers())
StartIdentifierList ==
    /\ AtToken
    /\ tokens[i].cls = "IdentifierList" /\ inside_select
    /\ identifiers' = [k \in 1..Len(MemberPlaces(tokens[i])) |->
                          tokens[i].tokens[MemberPlaces(tokens[i])[k]]]
    /\ j' = 1
    /\ pc' = "list"
    /\ UNCHANGED <<parser, sql, tokens, i, inside_select, is_first, out, returned,
                   written, cvars, xvars, svars>>

\* cautils wraps a member that is no Identifier into one; nsql takes it as it is
Wrapped(id) ==
    IF parser = "cautils" /\ id.cls # "Identifier"
    THEN Identifier(<<Name(id.value)>>)
    ELSE id

\* a comma after every member, the last too
CommaAlways(k, n) == ","

\* the comma after every member but the last
Comma(k, n) == IF k # n THEN "," ELSE ""

\* one turn of the loop over the members
YieldListMember ==
    /\ pc = "list" /\ j <= Len(identifiers)
    /\ LET id == Wrapped(identifiers[j])
           r == _parse_identifier(id, is_first)
           place == MemberPlaces(tokens[i])[j]
       IN  /\ tokens' = IF id = identifiers[j]
                        THEN [tokens EXCEPT ![i].tokens[place] = r.token]
                        ELSE tokens
           /\ IF r.raised
              THEN pc' = "raised" /\ UNCHANGED <<j, is_first, out>>
              ELSE /\ is_first' = FALSE
                   /\ out' = Append(out, Piece(r.text \o Comma(j, Len(identifiers)) \o "\n",
                                               "select", j, r))
                   /\ j' = j + 1
                   /\ pc' = pc
    /\ UNCHANGED <<parser, sql, i, identifiers, inside_select, returned,
                   written, cvars, xvars, svars>>

\* the continue after the last member
EndIdentifierList ==
    /\ pc = "list" /\ j > Len(identifiers)
    /\ pc' = "loop"
    /\ i' = i + 1
    /\ j' = 0
    /\ identifiers' = <<>>
    /\ UNCHANGED <<parser, sql, tokens, inside_select, is_first, out, returned,
                   written, cvars, xvars, svars>>

\* FROM is yielded but the SELECT list is not left
FromKeywordNoLatch ==
    /\ AtToken /\ ~InSelectList
    /\ is_from_token(tokens[i])
    /\ out' = Append(out, Piece(Str(tokens[i]), "from", 0, NoCall))
    /\ i' = i + 1
    /\ UNCHANGED <<parser, sql, tokens, identifiers, j, inside_select, is_first, returned, pc,
                   written, cvars, xvars, svars>>

\* case _ if is_from_token(token), then yield str(token)
FromKeyword ==
    /\ AtToken /\ ~InSelectList
    /\ is_from_token(tokens[i])
    /\ inside_select' = FALSE
    /\ out' = Append(out, Piece(Str(tokens[i]), "from", 0, NoCall))
    /\ i' = i + 1
    /\ UNCHANGED <<parser, sql, tokens, identifiers, j, is_first, returned, pc,
                   written, cvars, xvars, svars>>

\* the clause is yielded as it was written
WithoutMarker(token) == token

\* the marker is put in only once the SELECT list has been left
WithMarkerAfterFrom(token) ==
    IF inside_select THEN token ELSE [token EXCEPT !.tokens = Append(token.tokens, Marker)]

\* the WHERE clause with the marker put in: cautils appends it to the
\* clause, nsql hands the top-level index of the clause to insert_after
WithMarker(token) ==
    IF parser = "cautils"
    THEN [token EXCEPT !.tokens = Append(token.tokens, Marker)]
    ELSE insert_after(token, i - 1, Marker)

\* case _ if is_where_token(token), then yield str(token)
WhereClause ==
    /\ AtToken /\ ~InSelectList
    /\ ~is_from_token(tokens[i])
    /\ is_where_token(tokens[i])
    /\ tokens' = [tokens EXCEPT ![i] = WithMarker(tokens[i])]
    /\ out' = Append(out, Piece(Str(WithMarker(tokens[i])), "where", 0, NoCall))
    /\ i' = i + 1
    /\ UNCHANGED <<parser, sql, identifiers, j, inside_select, is_first, returned, pc,
                   written, cvars, xvars, svars>>

\* the SELECT keyword of a statement opens a SELECT list again
PassThroughResetting ==
    /\ AtToken /\ ~InSelectList
    /\ ~is_from_token(tokens[i])
    /\ ~is_where_token(tokens[i])
    /\ inside_select' = (inside_select \/ match(tokens[i], "DML", "SELECT"))
    /\ out' = Append(out, Piece(Str(tokens[i]), "other", 0, NoCall))
    /\ i' = i + 1
    /\ UNCHANGED <<parser, sql, tokens, identifiers, j, is_first, returned, pc,
                   written, cvars, xvars, svars>>

\* no case applies, and the token is dropped instead of yielded
PassThroughDropped ==
    /\ AtToken /\ ~InSelectList
    /\ ~is_from_token(tokens[i])
    /\ ~is_where_token(tokens[i])
    /\ i' = i + 1
    /\ UNCHANGED <<parser, sql, tokens, identifiers, j, inside_select, is_first, out,
                   returned, pc,
                   written, cvars, xvars, svars>>

\* no case applies: yield str(token)
PassThrough ==
    /\ AtToken /\ ~InSelectList
    /\ ~is_from_token(tokens[i])
    /\ ~is_where_token(tokens[i])
    /\ out' = Append(out, Piece(Str(tokens[i]), "other", 0, NoCall))
    /\ i' = i + 1
    /\ UNCHANGED <<parser, sql, tokens, identifiers, j, inside_select, is_first, returned, pc,
                   written, cvars, xvars, svars>>

\* the docstring's "The SQL MUST have a WHERE clause", enforced: a stream
\* with no WHERE clause raises instead of returning
ReturnOnlyWithWhere ==
    /\ pc = "loop" /\ i > Len(tokens)
    /\ IF \E p \in 1..Len(out) : out[p].branch = "where"
       THEN returned' = Some(Joined(out)) /\ pc' = "done"
       ELSE returned' = returned /\ pc' = "raised"
    /\ UNCHANGED <<parser, sql, tokens, i, identifiers, j, inside_select, is_first, out,
                   written, cvars, xvars, svars>>

\* the generator is exhausted: sql_to_nsql returns "".join(...)
Return ==
    /\ pc = "loop" /\ i > Len(tokens)
    /\ returned' = Some(Joined(out))
    /\ pc' = "done"
    /\ UNCHANGED <<parser, sql, tokens, i, identifiers, j, inside_select, is_first, out,
                   written, cvars, xvars, svars>>

\* what was yielded is written also when the walk raised
WriteYielded ==
    /\ pc \in {"done", "raised"} /\ written = <<>>
    /\ written' = Append(written, Joined(out))
    /\ pc' = IF pc = "done" THEN "written" ELSE pc
    /\ UNCHANGED <<parser, sql, tokens, i, identifiers, j, inside_select, is_first, out,
                   returned, cvars, xvars, svars>>

\* transpile: output.write(parser.sql_to_nsql(f)), once the value is there
Write ==
    /\ pc = "done"
    /\ written' = Append(written, returned.v)
    /\ pc' = "written"
    /\ UNCHANGED <<parser, sql, tokens, i, identifiers, j, inside_select, is_first, out,
                   returned, cvars, xvars, svars>>

Next ==
    \/ YieldIdentifier
    \/ StartIdentifierList
    \/ YieldListMember
    \/ EndIdentifierList
    \/ FromKeyword
    \/ WhereClause
    \/ PassThrough
    \/ Return
    \/ Write

Spec == Init /\ [][Next]_vars

\* the transpiler at rest, while another part runs
TranspilerIdle ==
    /\ parser = "cautils"
    /\ sql = [cols |-> <<>>, rest |-> Rest(FALSE, TRUE, FALSE, "none")]
    /\ tokens = <<>>
    /\ i = 1
    /\ identifiers = <<>>
    /\ j = 0
    /\ inside_select = TRUE
    /\ is_first = TRUE
    /\ out = <<>>
    /\ returned = None
    /\ pc = "idle"
    /\ written = <<>>

\* ------------------------------------------------------------------ credentials

\* for cred in ["url", "username", "password"]
CREDS == <<"url", "username", "password">>

\* the env names a command line may give; the file holds the first two
ENV_NAMES == {"dev", "prod", "qa"}
VALUES == {"v1", "v2"}
Credentials(e) ==
    [url |-> e \o "-url", username |-> e \o "-user", password |-> e \o "-pass"]

\* the configuration file as create_env left it
ENVS == [e \in {"dev", "prod"} |-> Credentials(e)]

InitCreds ==
    /\ cred = ""
    /\ commands = {}
    /\ envs = ENVS
    /\ ran = <<>>
    /\ TranspilerIdle
    /\ XogIdle
    /\ SessionIdle

\* one turn of the loop of creds_update_factory: cred is bound to the next
\* name and the function defined in the loop body is registered under it
Register ==
    /\ Cardinality(commands) < Len(CREDS)
    /\ cred' = CREDS[Cardinality(commands) + 1]
    /\ commands' = commands \cup {cred'}
    /\ UNCHANGED <<envs, ran, tvars, xvars, svars>>

\* update_credentials(name, **kwargs): envs[name] |= kwargs, then save_envs
update_credentials(file, name, field, value) ==
    [file EXCEPT ![name] = [@ EXCEPT ![field] = value]]

\* the function registered as NAME is the closure of the loop body: it reads
\* the factory's variable cred when it is called
BoundCred(name) == cred

\* credentials update NAME VALUE --env ENV, run once the module is imported
Update ==
    /\ Cardinality(commands) = Len(CREDS)
    /\ Len(ran) < MaxRuns
    /\ \E name \in commands, value \in VALUES, env \in ENV_NAMES :
          IF env \in DOMAIN envs
          THEN /\ envs' = update_credentials(envs, env, BoundCred(name), value)
               /\ ran' = Append(ran, [name |-> name, value |-> value, env |-> env,
                                       outcome |-> "updated"])
          ELSE /\ envs' = envs
               /\ ran' = Append(ran, [name |-> name, value |-> value, env |-> env,
                                       outcome |-> "KeyError"])
    /\ UNCHANGED <<cred, commands, tvars, xvars, svars>>

NextCreds ==
    \/ Register
    \/ Update

SpecCreds == InitCreds /\ [][NextCreds]_vars

\* ------------------------------------------------------------------ XOG.send

\* the status codes a server answers with, and httpx's Response.is_error
STATUSES == {200, 201, 204, 302, 400, 401, 404, 500, 503}
is_error(status) == status \in 400..599

\* the body of a response: well-formed XML with the elements the callers
\* look for (a SessionID, a query with its nsql, a Record), XML with none of
\* them, XML with an Exception element, with and without the Description
\* that a server puts next to it, and text that is no XML
FULL == "<Envelope><SessionID>s</SessionID><query><nsql>n</nsql></query><Record/></Envelope>"
FAULT == "<Envelope><Description>d</Description><Exception>e</Exception></Envelope>"
FAULT_BARE == "<Envelope><Exception>e</Exception></Envelope>"
BODIES == {FULL, "<Envelope/>", FAULT, FAULT_BARE, "<html>"}
WellFormed(body) == body # "<html>"
HasException(body) == Contains(body, "<Exception>")
HasDescription(body) == Contains(body, "<Description>")

InitXog ==
    /\ xog \in {"cautils", "nsql"}
    /\ response = [status |-> 0, body |-> ""]
    /\ xpc = "post"
    /\ exc = ""
    /\ TranspilerIdle
    /\ CredsIdle
    /\ SessionIdle

\* r = self.c.post(...)
Post ==
    /\ xpc = "post"
    /\ response' \in [status : STATUSES, body : BODIES]
    /\ xpc' = "status"
    /\ UNCHANGED <<xog, exc, tvars, cvars, svars>>

\* if r.is_error: raise HTTPError(r.text)
CheckStatus ==
    /\ xpc = "status"
    /\ IF is_error(response.status)
       THEN exc' = "HTTPError" /\ xpc' = "raised"
       ELSE exc' = exc /\ xpc' = "parse"
    /\ UNCHANGED <<xog, response, tvars, cvars, svars>>

\* etree.fromstring(r.text); nsql returns the tree
ParseBody ==
    /\ xpc = "parse"
    /\ IF ~WellFormed(response.body)
       THEN exc' = "XMLError" /\ xpc' = "raised"
       ELSE exc' = exc /\ xpc' = (IF xog = "cautils" THEN "check" ELSE "returned")
    /\ UNCHANGED <<xog, response, tvars, cvars, svars>>

\* cautils: if xpath := tree.xpath("//Exception/text()", NS): the first
\* Description is read with [0], then XogException is raised
CheckException ==
    /\ xpc = "check"
    /\ IF HasException(response.body)
       THEN /\ exc' = (IF HasDescription(response.body) THEN "XogException" ELSE "IndexError")
            /\ xpc' = "raised"
       ELSE exc' = exc /\ xpc' = "returned"
    /\ UNCHANGED <<xog, response, tvars, cvars, svars>>

NextXog ==
    \/ Post
    \/ CheckStatus
    \/ ParseBody
    \/ CheckException

SpecXog == InitXog /\ [][NextXog]_vars

\* ------------------------------------------------------------------ XOG sessions

\* how often query edit opens the editor
MaxEdits == 2

\* what a request meets: a response, or none when the POST itself fails
NoResponse == [status |-> 0, body |-> ""]
RESPONSES == [status : STATUSES, body : BODIES] \cup {NoResponse}

HasSessionID(body) == Contains(body, "<SessionID>")
HasQuery(body) == Contains(body, "<query>")
HasRecord(body) == Contains(body, "<Record/>")

\* XOG.send as a function of the response: the exception it raises, "" when
\* it returns the tree
send(m, r) ==
    IF r = NoResponse THEN "TransportError"
    ELSE IF is_error(r.status) THEN "HTTPError"
    ELSE IF ~WellFormed(r.body) THEN "XMLError"
    ELSE IF m = "cautils" /\ HasException(r.body)
         THEN IF HasDescription(r.body) THEN "XogException" ELSE "IndexError"
    ELSE ""

\* the first SessionID text, read with [0]; a text node is never empty, so
\* the test of line 217 never fires
SessionIDOf(r) == IF HasSessionID(r.body) THEN "s" ELSE ""

\* XOG.login: cautils sends through send and maps XogException, nsql posts
\* and parses the text without looking at the status
login(m, r) ==
    IF m = "cautils"
    THEN LET e == send(m, r)
         IN  IF e = "XogException" THEN "InvalidLoginError"
             ELSE IF e # "" THEN e
             ELSE IF ~HasSessionID(r.body) THEN "IndexError"
             ELSE IF SessionIDOf(r) = "" THEN "InvalidLoginError"
             ELSE ""
    ELSE IF r = NoResponse THEN "TransportError"
         ELSE IF ~WellFormed(r.body) THEN "XMLSyntaxError"
         ELSE IF HasException(r.body) THEN "InvalidLoginError"
         ELSE IF ~HasSessionID(r.body) THEN "IndexError"
         ELSE ""

\* XOG.logout: cautils sends through send, nsql only posts
logout(m, r) ==
    IF m = "cautils" THEN send(m, r)
    ELSE IF r = NoResponse THEN "TransportError" ELSE ""

\* XOG.query_get
query_get(m, r) ==
    LET e == send(m, r)
    IN  IF e = "XogException" THEN "NotFoundError"
        ELSE IF e # "" THEN e
        ELSE IF ~HasQuery(r.body) THEN "NotFoundError"
        ELSE ""

\* XOG.upload_query
upload_query(m, r) ==
    LET e == send(m, r)
    IN  IF e = "XogException" THEN "ContentPackageException"
        ELSE IF e # "" THEN e
        ELSE IF m = "nsql" /\ HasException(r.body) THEN "ContentPackageException"
        ELSE ""

\* XOG.run_query
run_query(m, r) ==
    LET e == send(m, r)
    IN  IF e = "XogException" THEN "QueryRunnerError"
        ELSE IF e # "" THEN e
        ELSE IF m = "nsql" /\ HasException(r.body) THEN "QueryRunnerError"
        ELSE ""

\* run_and_write: run_query, then Writer.write, which raises for no rows
run_and_write(m, r) ==
    LET e == run_query(m, r)
    IN  IF e # "" THEN e
        ELSE IF ~HasRecord(r.body) THEN "EmptyQueryResultError"
        ELSE ""

\* the commands of cautils that construct a XOG, and a caller that leaves a
\* with block of one XOG twice
COMMANDS == {"edit", "run_id", "file", "xog"}
CALLERS == COMMANDS \cup {"with"}

Did(op, e, closed) == [op |-> op, exc |-> e, closed |-> closed]

InitSession ==
    /\ invoked \in CALLERS
    /\ xog \in (IF invoked = "with" THEN {"cautils", "nsql"} ELSE {"cautils"})
    /\ options \in (IF invoked = "edit" THEN [run : BOOLEAN, loop : BOOLEAN]
                                      ELSE {[run |-> TRUE, loop |-> TRUE]})
    /\ spc = "construct"
    /\ session_id = ""
    /\ is_closed = FALSE
    /\ log = <<>>
    /\ raising = ""
    /\ exit_code = -1
    /\ response = NoResponse
    /\ xpc = "idle"
    /\ exc = ""
    /\ TranspilerIdle
    /\ CredsIdle

\* an exception leaves the command: the process ends with a non-zero code
Fails(e) == spc' = "ended" /\ raising' = e /\ exit_code' = 1
\* the command returns, or raises typer.Exit(0)
Exits == spc' = "ended" /\ raising' = raising /\ exit_code' = 0

\* where each caller goes once XOG(...) has returned
AfterConstruct ==
    CASE invoked = "edit" -> "get"
      [] invoked = "run_id" -> "run"
      [] invoked = "file" -> "upload"
      [] invoked = "xog" -> "read"
      [] invoked = "with" -> "body"

\* XOG(env_url, username, passwd): __post_init__ makes the client and logs in
Construct ==
    /\ spc = "construct"
    /\ \E r \in RESPONSES :
          LET e == login(xog, r)
          IN  /\ response' = r
              /\ log' = Append(log, Did("login", e, FALSE))
              /\ IF e # ""
                 THEN Fails(e) /\ session_id' = session_id
                 ELSE /\ session_id' = SessionIDOf(r)
                      /\ spc' = AfterConstruct
                      /\ UNCHANGED <<raising, exit_code>>
    /\ UNCHANGED <<invoked, options, is_closed, xog, xpc, exc, tvars, cvars>>

\* edit: nsql = xog.query_get(query_id, db)
QueryGet ==
    /\ spc = "get"
    /\ \E r \in RESPONSES :
          LET e == query_get(xog, r)
          IN  /\ response' = r
              /\ log' = Append(log, Did("query_get", e, is_closed))
              /\ IF e # "" THEN Fails(e)
                 ELSE spc' = "editor" /\ UNCHANGED <<raising, exit_code>>
    /\ UNCHANGED <<invoked, options, session_id, is_closed, xog, xpc, exc, tvars, cvars>>

Count(events, op) == Cardinality({k \in 1..Len(events) : events[k].op = op})

\* edit: typer.launch(f.name, wait=True), the top of the loop
Editor ==
    /\ spc = "editor"
    /\ Count(log, "editor") < MaxEdits
    /\ \E status \in {0, 1} :
          IF status # 0
          THEN /\ log' = Append(log, Did("editor", "Exception", is_closed))
               /\ Fails("Exception")
          ELSE /\ log' = Append(log, Did("editor", "", is_closed))
               /\ spc' = "upload"
               /\ UNCHANGED <<raising, exit_code>>
    /\ UNCHANGED <<invoked, options, session_id, is_closed, xvars, tvars, cvars>>

\* edit, what follows xog.upload_query: the except clause goes to ask,
\* another exception leaves, and without --run the command exits
UploadNextRunning(e) ==
    IF e \notin {"", "ContentPackageException"} THEN "ended"
    ELSE IF ~options.run THEN "ended"
    ELSE "run"
UploadNext(e) ==
    IF e = "ContentPackageException" THEN "ask"
    ELSE IF e # "" THEN "ended"
    ELSE IF ~options.run THEN "ended"
    ELSE "run"

\* edit and file: xog.upload_query(...)
Upload ==
    /\ spc = "upload"
    /\ \E r \in RESPONSES :
          LET e == upload_query(xog, r)
              next == IF invoked = "file" THEN (IF e # "" THEN "ended" ELSE "run")
                      ELSE UploadNext(e)
          IN  /\ response' = r
              /\ log' = Append(log, Did("upload_query", e, is_closed))
              /\ IF next = "ended"
                 THEN IF e # "" THEN Fails(e) ELSE Exits
                 ELSE spc' = next /\ UNCHANGED <<raising, exit_code>>
    /\ UNCHANGED <<invoked, options, session_id, is_closed, xog, xpc, exc, tvars, cvars>>

\* edit, file and run id: run_and_write(...); run id runs it in the with
\* block, so an exception goes through __exit__
Run ==
    /\ spc = "run"
    /\ \E r \in RESPONSES :
          LET e == run_and_write(xog, r)
          IN  /\ response' = r
              /\ log' = Append(log, Did("run_query", e, is_closed))
              /\ CASE invoked = "run_id" ->
                        spc' = "exit" /\ raising' = e /\ exit_code' = exit_code
                   [] invoked = "file" ->
                        IF e # "" THEN Fails(e) ELSE Exits
                   [] OTHER ->
                        IF e # "" THEN Fails(e)
                        ELSE spc' = "ask" /\ UNCHANGED <<raising, exit_code>>
    /\ UNCHANGED <<invoked, options, session_id, is_closed, xog, xpc, exc, tvars, cvars>>

\* edit: ask(), after the except clause (then continue) and after the run
\* (then the test of --loop)
Ask ==
    /\ spc = "ask"
    /\ \E answer \in BOOLEAN :
          LET ran_it == log[Len(log)].op = "run_query"
          IN  IF ~answer
              THEN log' = Append(log, Did("ask", "Exit", is_closed)) /\ Exits
              ELSE /\ log' = Append(log, Did("ask", "", is_closed))
                   /\ IF ran_it /\ ~options.loop THEN Exits
                      ELSE spc' = "editor" /\ UNCHANGED <<raising, exit_code>>
    /\ UNCHANGED <<invoked, options, session_id, is_closed, xvars, tvars, cvars>>

\* xog: Xml.read(f), before the with block
ReadXog ==
    /\ spc = "read"
    /\ \E readable \in BOOLEAN :
          IF readable
          THEN /\ log' = Append(log, Did("read", "", is_closed))
               /\ spc' = "send"
               /\ UNCHANGED <<raising, exit_code>>
          ELSE /\ log' = Append(log, Did("read", "XMLSyntaxError", is_closed))
               /\ Fails("XMLSyntaxError")
    /\ UNCHANGED <<invoked, options, session_id, is_closed, xvars, tvars, cvars>>

\* xog: resp = client.send(xml), in the with block
SendXog ==
    /\ spc = "send"
    /\ \E r \in RESPONSES :
          LET e == send(xog, r)
          IN  /\ response' = r
              /\ log' = Append(log, Did("send", e, is_closed))
              /\ spc' = "exit"
              /\ raising' = e
    /\ UNCHANGED <<invoked, options, session_id, is_closed, exit_code, xog, xpc, exc, tvars, cvars>>

\* the body of a with block of some caller: it returns or raises, and may
\* have closed the client itself
Body ==
    /\ spc = "body"
    /\ \E e \in {"", "Exception"}, closes \in BOOLEAN :
          /\ is_closed' = closes
          /\ log' = Append(log, Did("body", e, closes))
          /\ raising' = e
    /\ spc' = "exit"
    /\ UNCHANGED <<invoked, options, session_id, exit_code, xvars, tvars, cvars>>

\* where the caller is after __exit__ returned or raised
AfterExit == IF invoked = "with" /\ spc = "exit" THEN "exit2" ELSE "ended"

\* XOG.__exit__, sending the logout when logging_out: a logout that raises
\* leaves before self.c.close()
Leave(logging_out) ==
    /\ spc \in {"exit", "exit2"}
    /\ \E r \in (IF logging_out THEN RESPONSES ELSE {response}) :
          LET e == IF logging_out THEN logout(xog, r) ELSE ""
              entered == Append(log, Did("__exit__", "", is_closed))
              logged == IF logging_out
                        THEN Append(entered, Did("logout", e, is_closed))
                        ELSE entered
          IN  /\ response' = r
              /\ IF e # ""
                 THEN /\ log' = logged
                      /\ is_closed' = is_closed
                      /\ raising' = e
                 ELSE /\ log' = Append(logged, Did("close", "", TRUE))
                      /\ is_closed' = TRUE
                      /\ raising' = raising
              /\ spc' = AfterExit
              /\ exit_code' = (IF AfterExit # "ended" THEN exit_code
                               ELSE IF raising' # "" THEN 1 ELSE 0)
    /\ UNCHANGED <<invoked, options, session_id, xog, xpc, exc, tvars, cvars>>

ExitLoggingOut == Leave(TRUE)
\* if not self.c.is_closed: self.logout()
Exit == Leave(~is_closed)

NextSession ==
    \/ Construct
    \/ QueryGet
    \/ Editor
    \/ Upload
    \/ Run
    \/ Ask
    \/ ReadXog
    \/ SendXog
    \/ Body
    \/ Exit

SpecSession == InitSession /\ [][NextSession]_vars

\* ------------------------------------------------------------------ properties

\* the token stream as parsed, before _convert edits any tree
Input == parsestream(sql)

\* the places where needle starts in s
Occurrences(s, needle) ==
    {k \in 1..(Len(s) - Len(needle) + 1) : SubSeq(s, k, k + Len(needle) - 1) = needle}

\* the text of s from place k on
From(s, k) == SubSeq(s, k, Len(s))

\* the directives of the returned text: where each starts
Directives == Occurrences(returned.v, "@SELECT:")
TaggedDim(k) == StartsWith(From(returned.v, k), "@SELECT:DIM:")
TaggedDimProp(k) == StartsWith(From(returned.v, k), "@SELECT:DIM_PROP:")

\* the pieces yielded for top-level token k
PiecesOf(k) == {p \in 1..Len(out) : out[p].tok = k}

\* the place of the SELECT list in every input, and of the first FROM keyword
\* of a token stream
SelectAt == Len(Lead) + 1
IsFrom(t) == t.cls = "Token" /\ t.ttype = "Keyword" /\ t.value = "FROM"
FirstFrom(inp) == FirstOf({k \in 1..Len(inp) : IsFrom(inp[k])})

\* C1: a SELECT list of N columns, whatever their kinds, gives exactly N
\* directives in the output, the first tagged DIM, the others DIM_PROP.
C1_DirectiveCount ==
    pc = "done" =>
        /\ Cardinality(Directives) = Len(sql.cols)
        /\ \A k \in Directives :
              IF \A m \in Directives : k <= m THEN TaggedDim(k) ELSE TaggedDimProp(k)

\* C2: in the output of cautils sql_to_nsql, once an identifier of the SELECT
\* list has been rewritten, exactly one directive is tagged DIM, it is the
\* first one, and every later directive is tagged DIM_PROP.
C2_ExactlyOneDim ==
    (pc = "done" /\ parser = "cautils" /\ Directives # {}) =>
        /\ Cardinality({k \in Directives : TaggedDim(k)}) = 1
        /\ \A k \in Directives :
              IF \A m \in Directives : k <= m THEN TaggedDim(k) ELSE TaggedDimProp(k)

\* C3: of the N >= 2 directives of an IdentifierList each ends with a newline,
\* the first N-1 have one comma between the closing @ and the newline, the
\* last has none; the directive of a lone Identifier has a newline and no comma.
C3_CommaPlacement ==
    /\ \A p \in 1..Len(out) :
          out[p].branch = "select" =>
              /\ StartsWith(out[p].text, "@SELECT:")
              /\ IF out[p].member > 0 /\ out[p].member < Len(sql.cols)
                 THEN EndsWith(out[p].text, "@,\n")
                 ELSE EndsWith(out[p].text, "@\n")
    /\ (Len(sql.cols) >= 2 /\ pc # "raised" /\ i > SelectAt) =>
          /\ Cardinality(PiecesOf(SelectAt)) = Len(sql.cols)
          /\ \A m \in 1..Len(sql.cols) : \E p \in PiecesOf(SelectAt) : out[p].member = m

C3_Witness ==
    /\ pc = "done" /\ parser = "cautils" /\ Len(sql.cols) = 2
    /\ \E p, q \in PiecesOf(SelectAt) :
          /\ out[p].member = 1 /\ EndsWith(out[p].text, "@,\n")
          /\ out[q].member = 2 /\ EndsWith(out[q].text, "@\n")
          /\ ~EndsWith(out[q].text, ",\n")

\* the marker, as the output must show it
FilterMarker == "AND @FILTER@"

\* how _convert is to treat token k of the stream inp
IsSelectToken(inp, k) ==
    /\ inp[k].cls \in {"Identifier", "IdentifierList"}
    /\ (FirstFrom(inp) = 0 \/ k < FirstFrom(inp))
IsWhereToken(inp, k) == inp[k].cls = "Where"
IsPassThrough(inp, k) == ~IsSelectToken(inp, k) /\ ~IsWhereToken(inp, k)

\* C4: (cautils) the text yielded for a WHERE clause contains AND @FILTER@,
\* an input with a WHERE clause has such a text in its output, and no piece
\* yielded for another token contains the marker.
C4_FilterOnlyInWhere ==
    parser = "cautils" =>
        LET inp == Input
        IN  /\ \A p \in 1..Len(out) :
                  Contains(out[p].text, FilterMarker) <=> IsWhereToken(inp, out[p].tok)
            /\ (pc = "done" /\ sql.rest.where # "none") =>
                  /\ \E p \in 1..Len(out) : IsWhereToken(inp, out[p].tok)
                  /\ Contains(returned.v, FilterMarker)

C4_Witness ==
    /\ pc = "done" /\ parser = "cautils" /\ sql.rest.where = "bare"
    /\ \E m \in 1..Len(sql.cols) : sql.cols[m].kind = "subquery_as"
    /\ \E p \in 1..Len(out) :
          IsWhereToken(Input, out[p].tok) /\ Contains(out[p].text, FilterMarker)

\* the text of the input after its SELECT list
RestText == JoinStr(RestTokens(sql.rest))

C6_PassThrough ==
    parser = "cautils" =>
        LET inp == Input
        IN  /\ \A k \in 1..(i - 1) :
                  IsPassThrough(inp, k) =>
                      /\ Cardinality(PiecesOf(k)) = 1
                      /\ \A p \in PiecesOf(k) : out[p].text = Str(inp[k])
            /\ \A p, q \in 1..Len(out) : p < q => out[p].tok <= out[q].tok

C6_Witness ==
    /\ pc = "done" /\ parser = "cautils" /\ sql.rest.join
    /\ \E p, q \in 1..Len(out) :
          /\ p < q
          /\ out[p].text = "JOIN" /\ IsPassThrough(Input, out[p].tok)
          /\ out[q].text = "t.a = u.a" /\ IsPassThrough(Input, out[q].tok)

\* C7: once the top-level FROM keyword has been processed inside_select is
\* false, and every Identifier or IdentifierList after it is yielded as
\* written, never as a directive.
C7_FromLatches ==
    LET inp == Input
        from == FirstFrom(inp)
    IN  (from > 0 /\ i > from) =>
            /\ inside_select = FALSE
            /\ \A k \in (from + 1)..(i - 1) :
                  inp[k].cls \in {"Identifier", "IdentifierList"} =>
                      /\ PiecesOf(k) # {}
                      /\ \A p \in PiecesOf(k) :
                            /\ out[p].text = Str(inp[k])
                            /\ ~Contains(out[p].text, "@SELECT:")

C7_Witness ==
    /\ pc = "done" /\ sql.rest.join /\ inside_select = FALSE
    /\ \E p \in 1..Len(out) :
          /\ out[p].tok > FirstFrom(Input) /\ Input[out[p].tok].cls = "Identifier"
          /\ out[p].text = "u"

\* C8: create_select(is_dim, select, alias) is @SELECT:DIM:USER_DEF:IMPLIED:T:
\* or @SELECT:DIM_PROP:USER_DEF:IMPLIED:T: by is_dim, then select, a colon,
\* alias and @, and nothing else.
C8_CreateSelect ==
    \A p \in 1..Len(out) :
        out[p].branch = "select" =>
            LET directive ==
                    (IF out[p].is_dim THEN "@SELECT:DIM:USER_DEF:IMPLIED:T:"
                     ELSE "@SELECT:DIM_PROP:USER_DEF:IMPLIED:T:")
                    \o out[p].select \o ":" \o out[p].alias \o "@"
            IN  out[p].text \in {directive \o "\n", directive \o ",\n"}

C8_Witness ==
    \E p, q \in 1..Len(out) :
        /\ out[p].branch = "select" /\ out[p].is_dim
        /\ out[p].text = "@SELECT:DIM:USER_DEF:IMPLIED:T:t.col:col@,\n"
        /\ out[q].branch = "select" /\ ~out[q].is_dim
        /\ out[q].text = "@SELECT:DIM_PROP:USER_DEF:IMPLIED:T:COUNT(x):n@\n"

\* the column a piece of the SELECT list was yielded for
ColumnOf(p) == sql.cols[IF out[p].member = 0 THEN 1 ELSE out[p].member]

\* C9: (cautils) for a plain reference the expression is first_name when it
\* equals real_name and first_name.real_name otherwise, the alias is the
\* explicit alias when there is one and real_name otherwise.
C9_PlainReference ==
    parser = "cautils" =>
        \A p \in PiecesOf(SelectAt) :
            ColumnOf(p).kind = "plain" =>
                LET col == ColumnOf(p)
                    first_name == IF col.q # "" THEN col.q ELSE col.c
                    real_name == col.c
                    expression == IF first_name = real_name THEN first_name
                                  ELSE first_name \o "." \o real_name
                    alias == IF col.a # "" THEN col.a ELSE real_name
                IN  /\ out[p].select = expression
                    /\ out[p].alias = alias
                    /\ Contains(out[p].text, ":IMPLIED:T:" \o expression \o ":" \o alias \o "@")

C9_Witness ==
    /\ parser = "cautils" /\ pc = "done"
    /\ \E p, q \in PiecesOf(SelectAt) :
          /\ ColumnOf(p) = Plain("t", "col", "")
          /\ out[p].text = "@SELECT:DIM:USER_DEF:IMPLIED:T:t.col:col@,\n"
          /\ ColumnOf(q) = Plain("", "b", "c")
          /\ out[q].text = "@SELECT:DIM_PROP:USER_DEF:IMPLIED:T:b:c@\n"

\* C10: for SELECT a, b AS c FROM t WHERE a = 1, with nothing after the 1,
\* the output after the two directive lines is FROM t WHERE a = 1 AND @FILTER@:
\* a space separates the marker from the last token of the clause.
C10_MarkerAfterSpace ==
    (/\ pc = "done" /\ parser = "cautils"
     /\ sql.cols = <<Plain("", "a", ""), Plain("", "b", "c")>>
     /\ sql.rest = Rest(FALSE, TRUE, FALSE, "bare")) =>
        /\ Contains(returned.v, "@SELECT:DIM:USER_DEF:IMPLIED:T:a:a@")
        /\ Contains(returned.v, "@SELECT:DIM_PROP:USER_DEF:IMPLIED:T:b:c@\n")
        /\ Contains(returned.v, "FROM t WHERE a = 1 AND @FILTER@")

\* the columns written SUM(x) OVER (PARTITION BY y) AS total, with or without
\* the space after OVER, and those of them that sqlparse groups into one
\* Identifier whose first child is the function call
WINDOW_COLUMNS == {"window_as", "window_over_as", "window_spaced_as"}
WINDOW_IDENTIFIERS == {"window_as", "window_over_as"}
WindowClause(col) ==
    IF col.kind = "window_as" THEN "OVER(PARTITION BY y)" ELSE "OVER (PARTITION BY y)"
WindowDirective(col) ==
    "@SELECT:DIM:USER_DEF:IMPLIED:T:" \o "SUM(x)" \o " " \o WindowClause(col) \o ":total@"

\* C11, as claimed: (cautils) a window function with an alias, such as
\* SUM(x) OVER (PARTITION BY y) AS total, standing as the sole column gives
\* the DIM directive whose expression is the function call, one space and the
\* window clause, and whose alias is total.
C11_WindowFunction ==
    (/\ pc = "done" /\ parser = "cautils"
     /\ Len(sql.cols) = 1 /\ sql.cols[1].kind \in WINDOW_COLUMNS) =>
        Contains(returned.v, WindowDirective(sql.cols[1]) \o "\n")

\* C11, amended: (cautils) when sqlparse groups the window function into one
\* Identifier whose first child is the function call (OVER( written without a
\* space, or the OVER clause taken into the function), the directive's
\* expression is the function call, one space and the window clause, with no
\* trailing space and no alias; the alias is the explicit one; the sole
\* column is tagged DIM.
C11_WindowIdentifier ==
    parser = "cautils" =>
        \A p \in PiecesOf(SelectAt) :
            ColumnOf(p).kind \in WINDOW_IDENTIFIERS =>
                /\ out[p].select = "SUM(x)" \o " " \o WindowClause(ColumnOf(p))
                /\ out[p].alias = "total"
                /\ Len(sql.cols) = 1 =>
                      /\ out[p].is_dim
                      /\ out[p].text = WindowDirective(ColumnOf(p)) \o "\n"

C11_Witness ==
    /\ pc = "done" /\ parser = "cautils" /\ sql.cols = <<Column("window_as")>>
    /\ Contains(returned.v,
                "@SELECT:DIM:USER_DEF:IMPLIED:T:SUM(x) OVER(PARTITION BY y):total@\n")

\* the columns grouped into an Identifier whose first child is a Parenthesis
\* and whose last child is the alias: the text in the parentheses, the alias
PAREN_IDENTIFIERS == {"subquery_as", "window_spaced_as"}
ParenText(col) ==
    IF col.kind = "subquery_as" THEN "(SELECT MAX(z) FROM u WHERE a = 1)"
    ELSE "(PARTITION BY y)"
ParenAlias(col) == IF col.kind = "subquery_as" THEN "m" ELSE "total"

\* C12: for an Identifier whose first child is a Parenthesis the directive's
\* expression is the text of the whole parenthesised group, its alias the
\* name of the Identifier's last child, and its tag DIM for the first column
\* and DIM_PROP for a later one.
C12_ParenthesisIdentifier ==
    \A p \in 1..Len(out) :
        (out[p].branch = "select" /\ ColumnOf(p).kind \in PAREN_IDENTIFIERS) =>
            LET col == ColumnOf(p)
                tag == IF out[p].member <= 1 THEN "DIM" ELSE "DIM_PROP"
            IN  /\ out[p].select = ParenText(col)
                /\ out[p].alias = ParenAlias(col)
                /\ out[p].is_dim = (out[p].member <= 1)
                /\ StartsWith(out[p].text,
                              "@SELECT:" \o tag \o ":USER_DEF:IMPLIED:T:" \o ParenText(col)
                              \o ":" \o ParenAlias(col) \o "@")

C12_Witness ==
    /\ pc = "done" /\ sql.cols = <<Plain("", "a", ""), Column("subquery_as")>>
    /\ \E p \in PiecesOf(SelectAt) :
          /\ out[p].member = 2
          /\ out[p].text = "@SELECT:DIM_PROP:USER_DEF:IMPLIED:T:"
                            \o "(SELECT MAX(z) FROM u WHERE a = 1):m@\n"

\* C13: (cautils) for an Identifier whose first child is a CASE expression the
\* directive's expression is the text of the whole CASE, from CASE to END,
\* and its alias is the alias of the Identifier.
C13_CaseIdentifier ==
    parser = "cautils" =>
        \A p \in PiecesOf(SelectAt) :
            ColumnOf(p).kind = "case_as" =>
                /\ out[p].select = "CASE WHEN a THEN 1 END"
                /\ out[p].alias = "k"
                /\ Contains(out[p].text, ":IMPLIED:T:CASE WHEN a THEN 1 END:k@")

C13_Witness ==
    /\ pc = "done" /\ parser = "cautils" /\ sql.cols = <<Column("case_as")>>
    /\ Contains(returned.v, "@SELECT:DIM:USER_DEF:IMPLIED:T:CASE WHEN a THEN 1 END:k@\n")

\* C14: if a step of the walk raises, sql_to_nsql returns no text and
\* transpile writes nothing, whatever was yielded before; nothing is written
\* while the walk goes on; otherwise the complete output, the text of every
\* piece of the whole stream, is returned and written in one write.
C14_NoPartialSuccess ==
    /\ pc \in {"raised", "loop", "list"} => (returned = None /\ written = <<>>)
    /\ pc = "done" =>
          /\ returned = Some(Joined(out)) /\ i > Len(tokens)
          /\ written = <<>> /\ ENABLED Write
    /\ pc = "written" => (returned.some /\ written = <<returned.v>>)

C14_Witness ==
    /\ pc = "raised" /\ parser = "cautils"
    /\ sql.cols = <<Plain("", "a", ""), Column("paren_cast")>>
    /\ Len(out) > 0 /\ Contains(Joined(out), "@SELECT:DIM:USER_DEF:IMPLIED:T:a:a@,\n")
    /\ returned = None /\ written = <<>>

\* the configuration file after the command lines runs, if each command NAME
\* that went through set the field NAME of its env to its value
RECURSIVE Applied(_, _)
Applied(file, runs) ==
    IF Len(runs) = 0 THEN file
    ELSE LET c == Head(runs)
         IN  Applied(IF c.outcome = "updated"
                     THEN [file EXCEPT ![c.env] = [@ EXCEPT ![c.name] = c.value]]
                     ELSE file,
                     Tail(runs))

\* C15: each of the commands credentials update url, username and password,
\* given VALUE and --env E, sets exactly the field it is named after in env E
\* to VALUE and leaves the other fields and the other envs as they were.
C15_UpdateSetsNamedField == envs = Applied(ENVS, ran)

\* C16: XOG.send raises HTTPError for every response whose status is not 200
\* and XMLError for every response of status 200 whose body is not
\* well-formed XML; the body is parsed only after the status was checked.
C16_SendRaises ==
    xpc \in {"returned", "raised"} =>
        /\ response.status # 200 => exc = "HTTPError"
        /\ (response.status = 200 /\ ~WellFormed(response.body)) => exc = "XMLError"

\* the columns sqlparse groups into an Identifier whose first child is a
\* literal, no CASE, function, operation or parenthesis, with the names
\* sqlparse finds in them: 1 AS one has the name one, 1::int has none
LITERAL_IDENTIFIERS == {"literal_as", "literal_cast"}
LiteralName(col) == IF col.kind = "literal_as" THEN "one" ELSE "None"

\* the column the walk stands at
ColumnAt == sql.cols[IF j = 0 THEN 1 ELSE j]

\* C17: (cautils) an Identifier of the SELECT list whose first child is no
\* CASE, function, operation or parenthesis raises nothing, is formatted by
\* the rule of the plain reference and yields exactly one directive of the
\* form @SELECT:tag:USER_DEF:IMPLIED:T:expression:alias@.
C17_UnrecognisedFirstChild ==
    parser = "cautils" =>
        /\ pc = "raised" => ColumnAt.kind \notin ({"plain"} \cup LITERAL_IDENTIFIERS)
        /\ \A p \in PiecesOf(SelectAt) :
              ColumnOf(p).kind \in LITERAL_IDENTIFIERS =>
                  LET name == LiteralName(ColumnOf(p))
                      tag == IF out[p].member <= 1 THEN "DIM" ELSE "DIM_PROP"
                      directive == "@SELECT:" \o tag \o ":USER_DEF:IMPLIED:T:" \o name
                                   \o ":" \o name \o "@"
                  IN  /\ out[p].branch = "select"
                      /\ out[p].text \in {directive \o "\n", directive \o ",\n"}
        /\ (i > SelectAt /\ pc # "raised") =>
              \A m \in 1..Len(sql.cols) :
                  sql.cols[m].kind \in LITERAL_IDENTIFIERS =>
                      Cardinality({p \in PiecesOf(SelectAt) :
                                      out[p].member = (IF Len(sql.cols) = 1 THEN 0 ELSE m)}) = 1

C17_Witness ==
    /\ pc = "done" /\ parser = "cautils"
    /\ sql.cols = <<Column("literal_cast"), Column("literal_as")>>
    /\ Contains(returned.v, "@SELECT:DIM:USER_DEF:IMPLIED:T:None:None@,\n"
                            \o "@SELECT:DIM_PROP:USER_DEF:IMPLIED:T:one:one@\n")

\* C18: (cautils) processing a top-level WHERE clause adds exactly one token,
\* of text AND @FILTER@ and a newline, as the last child of the clause; the
\* children before it keep their text and order; the text yielded is the
\* text of the clause as written followed by the marker.  This holds of every
\* top-level WHERE clause, reached inside the SELECT list or after FROM.
C18_MarkerAppended ==
    parser = "cautils" =>
        LET inp == Input
        IN  \A k \in 1..Len(inp) :
                IsWhereToken(inp, k) =>
                    IF k < i
                    THEN /\ Len(tokens[k].tokens) = Len(inp[k].tokens) + 1
                         /\ Last(tokens[k].tokens).value = "AND @FILTER@\n"
                         /\ Last(tokens[k].tokens).cls = "Token"
                         /\ SubSeq(tokens[k].tokens, 1, Len(inp[k].tokens)) = inp[k].tokens
                         /\ Cardinality(PiecesOf(k)) = 1
                         /\ \A p \in PiecesOf(k) :
                               out[p].text = Str(inp[k]) \o "AND @FILTER@\n"
                    ELSE tokens[k] = inp[k]

C18_Witness ==
    /\ pc = "done" /\ parser = "cautils"
    /\ ~sql.rest.from /\ inside_select
    /\ \E p \in 1..Len(out) :
          IsWhereToken(Input, out[p].tok) /\ out[p].text = "WHERE a = 1AND @FILTER@\n"

\* C19: (nsql) for every WHERE clause, at whatever place of the top-level
\* stream it stands, the marker is put at the end of the clause's own
\* children, never before one of its condition tokens.
C19_MarkerAtEnd ==
    parser = "nsql" =>
        LET inp == Input
        IN  \A k \in 1..(i - 1) :
                IsWhereToken(inp, k) =>
                    /\ Last(tokens[k].tokens) = Marker
                    /\ SubSeq(tokens[k].tokens, 1, Len(inp[k].tokens)) = inp[k].tokens
                    /\ \A p \in PiecesOf(k) : EndsWith(out[p].text, "AND @FILTER@\n")

\* the step that handles a lone top-level Identifier of the SELECT list
AtLoneIdentifier ==
    pc = "loop" /\ i <= Len(tokens) /\ tokens[i].cls = "Identifier" /\ inside_select

\* C20: in _convert is_first starts true, is never set back to true, and
\* becomes false only when the first member of an IdentifierList is emitted;
\* a lone top-level Identifier is emitted with the is_first it finds and
\* leaves it as it is.
C20_IsFirstLatch ==
    [][/\ (pc = "loop" /\ i = 1) => is_first
       /\ is_first' => is_first
       /\ (is_first /\ ~is_first') =>
             /\ pc = "list" /\ j = 1
             /\ Len(out') = Len(out) + 1
             /\ Last(out').branch = "select" /\ Last(out').member = 1
       /\ AtLoneIdentifier =>
             /\ is_first' = is_first
             /\ Len(out') > Len(out) => Last(out').is_dim = is_first]_vars

C20_Witness ==
    /\ pc = "done" /\ parser = "cautils" /\ Len(sql.cols) = 1 /\ is_first
    /\ \E p \in PiecesOf(SelectAt) :
          out[p].branch = "select" /\ out[p].member = 0 /\ out[p].is_dim

\* the text of the subquery, with the FROM and the WHERE inside it
SubqueryText == "(SELECT MAX(z) FROM u WHERE a = 1)"

\* C21: (cautils) only top-level tokens are classified.  The FROM and the
\* WHERE inside a parenthesised subquery, in the SELECT list or in the FROM
\* clause, do not end the SELECT list and get no filter marker: inside_select
\* holds until the top-level FROM, the subquery is yielded with its text as
\* written, and the column after a subquery column is still a directive.
C21_TopLevelOnly ==
    parser = "cautils" =>
        LET inp == Input
            from == FirstFrom(inp)
        IN  /\ (from = 0 \/ i <= from) => inside_select
            /\ \A p \in 1..Len(out) :
                  /\ Contains(out[p].text, "@FILTER@") => IsWhereToken(inp, out[p].tok)
                  /\ (out[p].tok = SelectAt /\ ColumnOf(p).kind = "subquery_as") =>
                        Contains(out[p].text, ":IMPLIED:T:" \o SubqueryText \o ":m@")
                  /\ (out[p].tok > SelectAt /\ Contains(Str(inp[out[p].tok]), SubqueryText)) =>
                        out[p].text = SubqueryText \o " AS s"
            /\ (Len(sql.cols) >= 2 /\ sql.cols[1].kind = "subquery_as"
                /\ i > SelectAt /\ pc # "raised") =>
                  \E p \in PiecesOf(SelectAt) :
                      /\ out[p].member = 2 /\ out[p].branch = "select"
                      /\ StartsWith(out[p].text, "@SELECT:DIM_PROP:USER_DEF:IMPLIED:T:")

C21_Witness ==
    /\ pc = "done" /\ parser = "cautils" /\ sql.rest = RestSub
    /\ sql.cols = <<Column("subquery_as"), Plain("", "b", "c")>>
    /\ returned.v = "SELECT @SELECT:DIM:USER_DEF:IMPLIED:T:" \o SubqueryText \o ":m@,\n"
                     \o "@SELECT:DIM_PROP:USER_DEF:IMPLIED:T:b:c@\n"
                     \o " FROM " \o SubqueryText \o " AS s WHERE a = 1AND @FILTER@\n"

\* the columns that sqlparse leaves as they are, no Identifier, with their text
UNGROUPED_COLUMNS == {"function", "operation", "wildcard", "literal", "string"}
MemberText(col) ==
    CASE col.kind = "function" -> "COUNT(x)"
      [] col.kind = "operation" -> "a + b"
      [] col.kind = "wildcard" -> "*"
      [] col.kind = "literal" -> "1"
      [] col.kind = "string" -> "'x'"

\* C22: (cautils) every member of an IdentifierList yields exactly one
\* directive, also a member that is no Identifier (a function call without
\* alias, a literal): the expression and the alias of its directive are both
\* the whole text of the member.
C22_EveryMemberOneDirective ==
    (parser = "cautils" /\ Len(sql.cols) >= 2) =>
        /\ (i > SelectAt /\ pc # "raised") =>
              \A m \in 1..Len(sql.cols) :
                  Cardinality({p \in PiecesOf(SelectAt) :
                                  out[p].member = m /\ out[p].branch = "select"}) = 1
        /\ \A p \in PiecesOf(SelectAt) :
              ColumnOf(p).kind \in UNGROUPED_COLUMNS =>
                  /\ out[p].select = MemberText(ColumnOf(p))
                  /\ out[p].alias = MemberText(ColumnOf(p))

\* the columns _parse_ts is called for, with the text of the function or
\* operation that is the first child of the outermost Identifier
PARSE_TS_COLUMNS ==
    {"function_as", "operation_as", "window_as", "window_over_as", "window_cast"}
OutermostText(col) ==
    CASE col.kind = "function_as" -> "COUNT(x)"
      [] col.kind = "operation_as" -> "a + b"
      [] col.kind \in {"window_as", "window_cast"} -> "SUM(x)"
      [] col.kind = "window_over_as" -> "SUM(x) OVER (PARTITION BY y)"

\* C23: (cautils) _parse_ts never drops the text accumulated from the outer
\* layers: whatever the nesting of Identifier layers, the expression it
\* returns starts with the text of the outermost function or operation, also
\* when the first child of the innermost layer is a function or operation
\* and its last child is no Identifier.
C23_AccumulatedTextKept ==
    parser = "cautils" =>
        \A p \in PiecesOf(SelectAt) :
            ColumnOf(p).kind \in PARSE_TS_COLUMNS =>
                StartsWith(out[p].select, OutermostText(ColumnOf(p)))

\* C24: (cautils) inside_select and is_first are set once per call and not
\* reset where a statement ends: in an input of two statements the
\* identifiers after the first top-level FROM, those of the second statement
\* too, are yielded as written, and the WHERE clause of each statement gets
\* the filter marker.
C24_NoResetBetweenStatements ==
    (parser = "cautils" /\ sql.rest.more) =>
        LET inp == Input
            from == FirstFrom(inp)
        IN  /\ i > from => ~inside_select
            /\ (Len(sql.cols) >= 2 /\ i > SelectAt) => ~is_first
            /\ \A k \in (from + 1)..(i - 1) :
                  inp[k].cls \in {"Identifier", "IdentifierList"} =>
                      \A p \in PiecesOf(k) :
                          out[p].branch = "other" /\ out[p].text = Str(inp[k])
            /\ \A k \in 1..(i - 1) :
                  IsWhereToken(inp, k) =>
                      \E p \in PiecesOf(k) : EndsWith(out[p].text, "AND @FILTER@\n")
            /\ pc = "done" =>
                  /\ Cardinality(Occurrences(returned.v, "@FILTER@")) = 2
                  /\ Cardinality(Directives) = Len(sql.cols)

C24_Witness ==
    /\ pc = "done" /\ parser = "cautils" /\ sql.rest.more
    /\ sql.cols = <<Plain("", "a", "")>>
    /\ returned.v = "SELECT @SELECT:DIM:USER_DEF:IMPLIED:T:a:a@\n"
                     \o " FROM t WHERE a = 1;\nAND @FILTER@\n"
                     \o "SELECT b AS c FROM u WHERE a = 1AND @FILTER@\n"

\* the token of the stream ts that piece p was yielded for: a top-level token
\* or a member of the IdentifierList
TokenFor(ts, p) ==
    IF out[p].member = 0 THEN ts[out[p].tok]
    ELSE ts[out[p].tok].tokens[MemberPlaces(ts[out[p].tok])[out[p].member]]

\* a token without its last child, and the Identifier layers of a token: the
\* token, its last child when that is an Identifier, and so on
WithoutLast(t) == [t EXCEPT !.tokens = SubSeq(t.tokens, 1, Len(t.tokens) - 1)]
RECURSIVE Layers(_)
Layers(t) ==
    <<t>> \o (IF Len(t.tokens) > 0 /\ Last(t.tokens).cls = "Identifier"
              THEN Layers(Last(t.tokens)) ELSE <<>>)

\* C25: (cautils) classifying an Identifier whose first child is a plain name
\* or a CASE leaves its children as they are; classifying one whose first
\* child is a function, an operation or a parenthesis removes the last child
\* of each Identifier layer it goes through and nothing else; a token that
\* is yielded as written, and every token not yet reached, is not modified.
C25_OnlyLastChildRemoved ==
    parser = "cautils" =>
        LET inp == Input
        IN  /\ \A p \in 1..Len(out) :
                  LET orig == TokenFor(inp, p)
                      now == TokenFor(tokens, p)
                  IN  CASE out[p].branch \in {"other", "from"} -> now = orig
                        [] out[p].branch = "where" -> TRUE
                        [] orig.cls # "Identifier" -> now = orig
                        [] orig.tokens[1].cls \in {"Function", "Operation"} ->
                              /\ now = WithoutLast(orig)
                              /\ out[p].visited =
                                    [k \in 1..Len(Layers(orig)) |-> WithoutLast(Layers(orig)[k])]
                        [] orig.tokens[1].cls = "Parenthesis" ->
                              now = WithoutLast(orig) /\ out[p].visited = <<now>>
                        [] OTHER -> now = orig /\ out[p].visited = <<orig>>
            /\ \A k \in (i + 1)..Len(inp) : tokens[k] = inp[k]
            /\ \A k \in 1..Len(inp) :
                  inp[k].cls = "IdentifierList" =>
                      /\ Len(tokens[k].tokens) = Len(inp[k].tokens)
                      /\ \A m \in 1..Len(inp[k].tokens) :
                            (IsWs(inp[k].tokens[m]) \/ match(inp[k].tokens[m], "Punctuation", ","))
                                => tokens[k].tokens[m] = inp[k].tokens[m]

C25_Witness ==
    /\ pc = "done" /\ parser = "cautils" /\ sql.cols = <<Column("window_as")>>
    /\ tokens[SelectAt] # Input[SelectAt]
    /\ tokens[SelectAt] = WithoutLast(Input[SelectAt])
    /\ \E p \in PiecesOf(SelectAt) :
          /\ Len(out[p].visited) = Len(Layers(Input[SelectAt]))
          /\ Len(out[p].visited) > 2

\* C26: (cautils) a plain reference written with a qualifier, q.c, keeps the
\* qualifier in the expression of its directive, q.c, whatever q and c are,
\* also when the qualifier and the column have the same name.
C26_QualifierKept ==
    parser = "cautils" =>
        \A p \in PiecesOf(SelectAt) :
            (ColumnOf(p).kind = "plain" /\ ColumnOf(p).q # "") =>
                out[p].select = ColumnOf(p).q \o "." \o ColumnOf(p).c

\* the places of the log where a with block is left, and whether the
\* logout follows there
Leaves == {k \in 1..Len(log) : log[k].op = "__exit__"}
LogoutAt(k) == k < Len(log) /\ log[k + 1].op = "logout"
LogoutRaisedAt(k) == LogoutAt(k) /\ log[k + 1].exc # ""
ClosedAfter(k) ==
    LET n == IF LogoutAt(k) THEN k + 2 ELSE k + 1
    IN  n <= Len(log) /\ log[n].op = "close" /\ log[n].closed
SecondLeaves == {k \in Leaves : \E first \in Leaves : first < k}

\* leaving sends the logout exactly when the client is not closed, and
\* closes the client unless the logout raised
LeaveRule ==
    /\ \A k \in Leaves :
          /\ LogoutAt(k) <=> ~log[k].closed
          /\ ~LogoutRaisedAt(k) => ClosedAfter(k)
    /\ (Len(log) > 0 /\ log[Len(log)].op = "close") => is_closed

\* C27, as stated: leaving a with block of a XOG, by return or by an
\* exception, sends a logout exactly when the client is not closed yet, the
\* client is closed afterwards whenever the logout did not raise, and
\* leaving the block a second time sends no further logout.
C27_SecondLeaveNeverLogsOut ==
    /\ LeaveRule
    /\ \A k \in SecondLeaves : ~LogoutAt(k)

\* C27, amended: leaving a with block of a XOG, by return or by an
\* exception, sends a logout exactly when the client is not closed yet and
\* the client is closed afterwards whenever the logout did not raise; a
\* second leave sends a further logout exactly when the logout of the first
\* leave raised, which left the client open.
C27_LeaveLogsOutAndCloses ==
    /\ LeaveRule
    /\ \A k \in SecondLeaves : LogoutAt(k) <=> (log[k - 1].op = "logout" /\ log[k - 1].exc # "")

\* a with block left by an exception: the logout was sent and answered, the
\* client closed, and the second leave sent nothing
C27_Witness ==
    /\ invoked = "with"
    /\ spc = "ended"
    /\ \E k \in Leaves :
          /\ log[k - 1] = Did("body", "Exception", FALSE)
          /\ LogoutAt(k) /\ ~LogoutRaisedAt(k) /\ ClosedAfter(k)
          /\ log[k + 3].op = "__exit__" /\ ~LogoutAt(k + 3)

\* C28: every command of cautils that logs in (query edit, query run id,
\* query run file, xog) has sent a logout and closed the client when it
\* ends, with or without an error.
C28_LogoutBeforeEnd ==
    (invoked \in COMMANDS /\ spc = "ended" /\ session_id # "") =>
        /\ \E k \in 1..Len(log) : log[k].op = "logout"
        /\ is_closed

\* the places of the log where query edit uploaded and ran
Uploads == {k \in 1..Len(log) : log[k].op = "upload_query"}
Runs == {k \in 1..Len(log) : log[k].op = "run_query"}
ExitedWithZero == spc = "ended" /\ exit_code = 0

OwnError(op) ==
    CASE op = "login" -> "InvalidLoginError"
      [] op = "query_get" -> "NotFoundError"
      [] op = "upload_query" -> "ContentPackageException"
      [] op = "run_query" -> "QueryRunnerError"
OPERATIONS == {"login", "query_get", "upload_query", "run_query"}

\* C30: (cautils) an operation whose response is no HTTP error and is
\* well-formed XML with an Exception element raises its own error type:
\* InvalidLoginError from login, NotFoundError from query_get,
\* ContentPackageException from upload_query, QueryRunnerError from
\* run_query; an HTTP error raises HTTPError and text that is no XML raises
\* XMLError from each of them; when login fails the constructor raises, so
\* a caller that has a XOG has one whose session_id is not empty.
C30_OwnErrorType ==
    (xog = "cautils" /\ Len(log) > 0) =>
        LET done == log[Len(log)]
        IN  /\ (done.op \in OPERATIONS /\ response # NoResponse) =>
                  /\ is_error(response.status) => done.exc = "HTTPError"
                  /\ (~is_error(response.status) /\ ~WellFormed(response.body)) =>
                        done.exc = "XMLError"
                  /\ (~is_error(response.status) /\ WellFormed(response.body)
                        /\ HasException(response.body)) => done.exc = OwnError(done.op)
            /\ IF log[1].exc # "" THEN spc = "ended" /\ Len(log) = 1
               ELSE session_id # ""

====
